---------------------------- MODULE Spec2Model ----------------------------
(***************************************************************************)
(* Model of magpylib's field-evaluation pipeline getBH_level2              *)
(* (src/magpylib/_lib/fields/field_wrap_BH_level2.py).                     *)
(*                                                                         *)
(* numpy arrays are records [shape, data]: data is the row-major (C order) *)
(* flat list of the scalars, shape the tuple of axis lengths, exactly as   *)
(* numpy stores them, so that tile / reshape / concatenate / delete /      *)
(* squeeze are modelled by what they do to the flat buffer.                *)
(* Scalars are integers.  Orientations are quaternions (x,y,z,w) of the    *)
(* four rotations about the z axis by multiples of 90 degrees, written     *)
(* with integer components (scipy normalises);  the unit quaternion is     *)
(* (0,0,0,1) as in the source.                                             *)
(***************************************************************************)
EXTENDS Integers, Sequences, FiniteSets, TLC

(***************************************************************************)
(* Bounds of the model.                                                    *)
(***************************************************************************)
\* longest path (number of position/orientation states) of an object
MaxPath == 3
\* longest list of top-level source entries of one call
MaxTop == 2

(***************************************************************************)
(* numpy                                                                   *)
(***************************************************************************)
RECURSIVE Prod(_)
Prod(s) == IF s = <<>> THEN 1 ELSE Head(s) * Prod(Tail(s))

RECURSIVE SeqSum(_)
SeqSum(s) == IF s = <<>> THEN 0 ELSE Head(s) + SeqSum(Tail(s))

RECURSIVE FlatSeq(_)
\* concatenation of a list of lists
FlatSeq(ss) == IF ss = <<>> THEN <<>> ELSE Head(ss) \o FlatSeq(Tail(ss))

\* an array: its shape and its elements in row-major order, as an explicit tuple
Arr(shape, data) == [shape |-> shape, data |-> SubSeq(data, 1, Len(data))]

\* np.array(v) of one row of scalars
Vec(v) == Arr(<<Len(v)>>, v)

\* len(A)
NpLen(A) == A.shape[1]

\* number of scalars of one entry along axis 0
Stride0(A) == Prod(Tail(A.shape))

\* A[i], i counted from 0
Index0(A, i) ==
    Arr(Tail(A.shape), SubSeq(A.data, i * Stride0(A) + 1, (i + 1) * Stride0(A)))

\* A[-1]
Last0(A) == Index0(A, NpLen(A) - 1)

Min(a, b) == IF a < b THEN a ELSE b
Max(a, b) == IF a > b THEN a ELSE b

\* A[a:b], a and b clipped to the axis as Python slices are
Slice0(A, a, b) ==
    LET n  == NpLen(A)
        lo == Min(a, n)
        hi == Max(lo, Min(b, n))
    IN  Arr(<<hi - lo>> \o Tail(A.shape),
            SubSeq(A.data, lo * Stride0(A) + 1, hi * Stride0(A)))

\* np.concatenate((A, B)) along axis 0
Concat0(A, B) ==
    Arr(<<NpLen(A) + NpLen(B)>> \o Tail(A.shape), A.data \o B.data)

\* np.array([A1, A2, ...]) of equally shaped arrays
Stack(as) ==
    LET sz == Len(as[1].data)
    IN  Arr(<<Len(as)>> \o as[1].shape,
            [e \in 1..(Len(as) * sz) |-> as[((e - 1) \div sz) + 1].data[((e - 1) % sz) + 1]])

\* n copies of the list s, one after the other
Repeat(s, n) == [e \in 1..(n * Len(s)) |-> s[((e - 1) % Len(s)) + 1]]

\* np.tile(A, n): n copies along the LAST axis
NpTile(A, n) ==
    LET w    == A.shape[Len(A.shape)]
        rows == Len(A.data) \div w
    IN  Arr([i \in 1..Len(A.shape) |->
                IF i = Len(A.shape) THEN w * n ELSE A.shape[i]],
            [e \in 1..(rows * w * n) |->
                A.data[((e - 1) \div (w * n)) * w + ((e - 1) % w) + 1]])

\* np.tile(A, (n,1)): n copies along axis 0; a 1-D array counts as one row
NpTileRows(A, n) ==
    LET rows == IF Len(A.shape) = 1 THEN 1 ELSE A.shape[1]
        w    == A.shape[Len(A.shape)]
    IN  Arr(<<n * rows, w>>, Repeat(A.data, n))

\* A.reshape((-1, w))
ReshapeRows(A, w) == Arr(<<Len(A.data) \div w, w>>, A.data)

\* A.flatten()
Flatten(A) == Arr(<<Len(A.data)>>, A.data)

\* A.reshape(shape) is possible
CanReshape(A, shape) == Prod(shape) = Len(A.data)

\* A.reshape(shape)
Reshape(A, shape) == Arr(shape, A.data)

\* np.sum(A, axis=0); the sum over an empty axis is zero
NpSum0(A) ==
    LET st == Stride0(A)
    IN  Arr(Tail(A.shape),
            [e \in 1..st |->
                SeqSum([i \in 1..NpLen(A) |-> A.data[(i - 1) * st + e]])])

\* A[i] = V (V of the shape of one entry), i counted from 0
SetIndex0(A, i, V) ==
    LET st == Stride0(A)
    IN  Arr(A.shape,
            [e \in 1..Len(A.data) |->
                IF e > i * st /\ e <= (i + 1) * st THEN V.data[e - i * st]
                ELSE A.data[e]])

\* np.delete(A, np.s_[a:b], 0)
NpDelete0(A, a, b) ==
    LET n  == NpLen(A)
        lo == Min(a, n)
        hi == Max(lo, Min(b, n))
        st == Stride0(A)
    IN  Arr(<<n - (hi - lo)>> \o Tail(A.shape),
            SubSeq(A.data, 1, lo * st) \o SubSeq(A.data, hi * st + 1, n * st))

RECURSIVE LeadingOnesDropped(_)
LeadingOnesDropped(shape) ==
    IF shape # <<>> /\ Head(shape) = 1 THEN LeadingOnesDropped(Tail(shape)) ELSE shape

\* a squeeze that removes only the leading axes of length 1
NpSqueeze_LeadingOnly(A) == Arr(LeadingOnesDropped(A.shape), A.data)

\* np.squeeze(A): every axis of length 1 is dropped
NpSqueeze(A) == Arr(SelectSeq(A.shape, LAMBDA d : d # 1), A.data)

(***************************************************************************)
(* scipy Rotation, restricted to the rotations about z by k * 90 degrees   *)
(***************************************************************************)
unitQ == <<0, 0, 0, 1>>
Quats == {<<0, 0, 0, 1>>, <<0, 0, 1, 1>>, <<0, 0, 1, 0>>, <<0, 0, -1, 1>>}

\* r.apply(v) for one quaternion and one 3-vector
QuatApply(q, v) ==
    CASE q = <<0, 0, 0, 1>>  -> v
      [] q = <<0, 0, 1, 1>>  -> <<0 - v[2], v[1], v[3]>>
      [] q = <<0, 0, 1, 0>>  -> <<0 - v[1], 0 - v[2], v[3]>>
      [] q = <<0, 0, -1, 1>> -> <<v[2], 0 - v[1], v[3]>>

\* r.inv()
QuatInv(q) ==
    CASE q = <<0, 0, 0, 1>>  -> <<0, 0, 0, 1>>
      [] q = <<0, 0, 1, 1>>  -> <<0, 0, -1, 1>>
      [] q = <<0, 0, 1, 0>>  -> <<0, 0, 1, 0>>
      [] q = <<0, 0, -1, 1>> -> <<0, 0, 1, 1>>

\* row i (from 1) of a 2-D array as a tuple
Row(A, i) == SubSeq(A.data, (i - 1) * A.shape[2] + 1, i * A.shape[2])

\* r.apply(A): one rotation applied to every row of a (P,3) array
RotApply(q, A) ==
    Arr(A.shape, FlatSeq([i \in 1..A.shape[1] |-> QuatApply(q, Row(A, i))]))

\* A + p: the vector p added to every row of a (P,3) array
AddRow(A, p) ==
    Arr(A.shape, [e \in 1..Len(A.data) |-> A.data[e] + p[((e - 1) % 3) + 1]])

(***************************************************************************)
(* The objects of the caller.  Every object has a path: a (p,3) array of   *)
(* positions and a Rotation of length p (a (p,4) array of quaternions).    *)
(***************************************************************************)
\* an attribute that is not initialized (Python's None); every attribute
\* value is a tuple, a scalar d the 1-tuple <<d>>
None == <<>>

SourceIds == {"s1", "s2", "s3", "s4", "f1", "u1"}
CollectionIds == {"c0", "c1", "c2"}
SensorIds == {"k1", "k2", "k3"}
ObjIds == SourceIds \cup CollectionIds \cup SensorIds

\* the seven kinds getBH_level2 sorts sources into, in bucket order
SourceTypes ==
    <<"Cuboid", "Cylinder", "CylinderSegment", "Sphere", "Dipole", "Circular", "Line">>

NoAttr ==
    [object_type |-> "None", magnetization |-> None, dimension |-> None,
     diameter |-> None, moment |-> None, current |-> None, vertices |-> None,
     pixel |-> Arr(<<0>>, <<>>), sources |-> <<>>]

\* the attributes the objects are constructed with
Attr0 ==
    [o \in ObjIds |->
        CASE o = "s1" -> [NoAttr EXCEPT !.object_type = "Cuboid",
                            !.magnetization = <<1, 2, 3>>, !.dimension = <<1, 1, 2>>]
          [] o = "s2" -> [NoAttr EXCEPT !.object_type = "Sphere",
                            !.magnetization = <<2, 0, 1>>, !.diameter = <<2>>]
          [] o = "s3" -> [NoAttr EXCEPT !.object_type = "Sphere",
                            !.magnetization = <<0, 3, 1>>, !.diameter = <<5>>]
          [] o = "s4" -> [NoAttr EXCEPT !.object_type = "Line",
                            !.current = <<4>>, !.vertices = <<0, 0, 0, 1, 0, 0>>]
          [] o = "f1" -> [NoAttr EXCEPT !.object_type = "Facet",
                            !.magnetization = <<1, 1, 1>>,
                            !.vertices = <<0, 0, 0, 1, 0, 0, 0, 1, 0>>]
          [] o = "u1" -> [NoAttr EXCEPT !.object_type = "Cuboid",
                            !.magnetization = <<3, 1, 2>>]
          [] o = "c0" -> [NoAttr EXCEPT !.object_type = "Collection",
                            !.sources = <<>>]
          [] o = "c1" -> [NoAttr EXCEPT !.object_type = "Collection",
                            !.sources = <<"s2", "s3">>]
          [] o = "c2" -> [NoAttr EXCEPT !.object_type = "Collection",
                            !.sources = <<"s4", "s1">>]
          [] o = "k1" -> [NoAttr EXCEPT !.object_type = "Sensor",
                            !.pixel = Arr(<<3>>, <<1, 2, 3>>)]
          [] o = "k2" -> [NoAttr EXCEPT !.object_type = "Sensor",
                            !.pixel = Arr(<<2, 3>>, <<1, 0, 0, 0, 2, 0>>)]
          [] o = "k3" -> [NoAttr EXCEPT !.object_type = "Sensor",
                            !.pixel = Arr(<<2, 3>>, <<1, 1, 0, 0, 0, 1>>)]]

\* the objects that have a path
PathIds == SourceIds \cup SensorIds

\* path length each object is constructed with
PathLen0(o) ==
    CASE o \in {"s4", "k2"} -> MaxPath
      [] o \in {"k3"} -> Min(2, MaxPath)
      [] OTHER -> 1

ObjNo(o) ==
    CASE o = "s1" -> 1 [] o = "s2" -> 2 [] o = "s3" -> 3 [] o = "s4" -> 4
      [] o = "f1" -> 5 [] o = "u1" -> 6 [] o = "k1" -> 7 [] o = "k2" -> 8
      [] o = "k3" -> 9

RotCycle == <<<<0, 0, 0, 1>>, <<0, 0, 1, 1>>, <<0, 0, 1, 0>>, <<0, 0, -1, 1>>>>

\* orientation of object o at path step j (from 1) as constructed: s1, k1, f1
\* and u1 keep the unit rotation, s2, s3 and k3 one fixed rotation, s4 and k2 turn
Quat0(o, j) ==
    CASE o \in {"s1", "k1", "f1", "u1"} -> unitQ
      [] o \in {"s2", "k3"} -> RotCycle[2]
      [] o \in {"s3"} -> RotCycle[3]
      [] OTHER -> RotCycle[((j + ObjNo(o)) % 4) + 1]

\* position of object o at path step j (from 1) as constructed
Pos0(o, j) == <<ObjNo(o) + j, 2 * j - ObjNo(o), ObjNo(o)>>

Position0 ==
    [o \in PathIds |->
        Arr(<<PathLen0(o), 3>>, FlatSeq([j \in 1..PathLen0(o) |-> Pos0(o, j)]))]

Orientation0 ==
    [o \in PathIds |->
        Arr(<<PathLen0(o), 4>>, FlatSeq([j \in 1..PathLen0(o) |-> Quat0(o, j)]))]

RECURSIVE SeqsUpTo(_, _)
\* the non-empty lists of length <= n over the set S
SeqsUpTo(S, n) ==
    IF n = 0 THEN {}
    ELSE LET shorter == SeqsUpTo(S, n - 1)
         IN  {<<x>> : x \in S} \cup shorter
                \cup {Append(s, x) : s \in shorter, x \in S}

\* the "sources" arguments of a call: 1-D lists of sources and collections
\* (s4 is passed as a member of collection c2 only)
SourceInputs == SeqsUpTo((SourceIds \ {"s4"}) \cup CollectionIds, MaxTop)

\* the "observers" arguments of a call: one sensor, or a list of two sensors
ObserverInputs ==
    {<<a>> : a \in SensorIds} \cup {<<a, b>> : a \in SensorIds, b \in SensorIds}

(***************************************************************************)
(* State                                                                   *)
(***************************************************************************)
VARIABLES
    attr,               \* caller's objects: type tag, excitation, geometry, pixel, members
    position,           \* caller's objects: obj._position, a (p,3) array
    orientation,        \* caller's objects: obj._orientation, as the (p,4) array as_quat()
    sources,            \* argument: list of top-level sources and collections
    observers,          \* argument: list of sensors
    sumup,              \* argument; no stage before "sumup" reads it, and the
    squeeze,            \*   model draws it there; likewise squeeze at "squeeze"
    pc,                 \* the stage of getBH_level2 that runs next
    err,                \* the exception the call raised, "" when none
    src_list,           \* sources with the collections flattened
    sensors,
    unrotated_sensors,
    static_sensor_rot,
    m,                  \* the longest path of the participating objects
    reset_obj,          \* objects to tile up and reset, paired with
    reset_obj_m0,       \*   their original path lengths
    poso,               \* the combined observation points
    src_sorted,         \* the seven groups of sources
    order,              \*   and the flat-list indices of their members
    B,                  \* the field array
    result,             \* what the call returned
    position_pre,       \* history: the paths when the call started
    orientation_pre,
    kernel_calls,       \* history: the groups getBH_level1 was invoked for
    B_unsummed,         \* history: B when the sumup stage started
    B_unsqueezed,       \* history: B when the squeeze stage started
    lists,              \* the Python lists that hold the members of Collections
    col,                \* Collection objects: the list their _sources refers to
    col_op              \* history: the last operation on a Collection

vars ==
    <<attr, position, orientation, sources, observers, sumup, squeeze, pc, err,
      src_list, sensors, unrotated_sensors, static_sensor_rot, m, reset_obj,
      reset_obj_m0, poso, src_sorted, order, B, result,
      position_pre, orientation_pre, kernel_calls, B_unsummed, B_unsqueezed,
      lists, col, col_op>>

objects == <<attr, position, orientation>>
arguments == <<sources, observers, sumup, squeeze>>
history == <<position_pre, orientation_pre>>
stage_history == <<B_unsummed, B_unsqueezed>>
collections == <<lists, col, col_op>>

NoArr == Arr(<<0>>, <<>>)
NoResult == Arr(<<>>, <<>>)

\* an exception instead of a value
Raise(e) == [raise |-> e]
Raised(x) == "raise" \in DOMAIN x

(***************************************************************************)
(* Helpers of the repository that the source file imports                  *)
(***************************************************************************)
\* format_src_inputs: the ordered list of sources with flattened collections
format_src_inputs(srcs) ==
    FlatSeq([i \in 1..Len(srcs) |->
        IF attr[srcs[i]].object_type = "Collection" THEN attr[srcs[i]].sources
        ELSE <<srcs[i]>>])

\* check_dimensions: all source dimensions (or similar) are initialized
check_dimensions(srcs) ==
    \A i \in 1..Len(srcs) :
        LET a == attr[srcs[i]]
        IN  /\ a.object_type \in {"Cuboid", "Cylinder", "CylinderSegment"}
                    => a.dimension # None
            /\ a.object_type \in {"Sphere", "Circular"} => a.diameter # None
            /\ a.object_type = "Line" => a.vertices # None

\* check_excitations: all source excitations are initialized
check_excitations(srcs) ==
    \A i \in 1..Len(srcs) :
        LET a == attr[srcs[i]]
        IN  /\ a.object_type \in {"Cuboid", "Cylinder", "CylinderSegment", "Sphere"}
                    => a.magnetization # None
            /\ a.object_type = "Dipole" => a.moment # None
            /\ a.object_type \in {"Circular", "Line"} => a.current # None

\* format_obs_inputs: a list of sensor instances
format_obs_inputs(obs) == obs

\* all_same: all entries of a list are equal
all_same(lst) == \A i \in 1..Len(lst) : lst[i] = lst[1]

\* check_static_sensor_orient: per sensor, is its orientation the same along its path
check_static_sensor_orient(sens) ==
    [i \in 1..Len(sens) |->
        LET rot == orientation[sens[i]]
        IN  \/ NpLen(position[sens[i]]) = 1
            \/ \A j \in 1..NpLen(rot) : Row(rot, j) = Row(rot, 1)]

(***************************************************************************)
(* Tiling of the attributes of a group of sources (level1 input)           *)
(***************************************************************************)
\* np.array([src.<attribute> for src in group]) of a vector attribute
AttrMatrix(group, name) == Stack([i \in 1..Len(group) |-> Vec(attr[group[i]][name])])

\* np.array([src.<attribute> for src in group]) of a scalar attribute
AttrVector(group, name) == Arr(<<Len(group)>>, [i \in 1..Len(group) |-> attr[group[i]][name][1]])

\* the magnetizations tiled with the source index varying fastest:
\* np.tile(mags, (n_pp,1))
tile_mag_SourceFastest(group, n_pp) == NpTileRows(AttrMatrix(group, "magnetization"), n_pp)

tile_mag(group, n_pp) == ReshapeRows(NpTile(AttrMatrix(group, "magnetization"), n_pp), 3)

tile_dim_cuboid(group, n_pp) == ReshapeRows(NpTile(AttrMatrix(group, "dimension"), n_pp), 3)

tile_dim_cylinder(group, n_pp) == ReshapeRows(NpTile(AttrMatrix(group, "dimension"), n_pp), 2)

tile_dim_cylinder_section(group, n_pp) ==
    ReshapeRows(NpTile(AttrMatrix(group, "dimension"), n_pp), 5)

tile_dia(group, n_pp) == Flatten(NpTile(AttrVector(group, "diameter"), n_pp))

tile_moment(group, n_pp) == ReshapeRows(NpTile(AttrMatrix(group, "moment"), n_pp), 3)

tile_current(group, n_pp) == Flatten(NpTile(AttrVector(group, "current"), n_pp))

\* get_src_dict with the current of a Line group tiled like that of a
\* Circular group: currv = tile_current(group, n_pp)
get_src_dict_LineCurrentTiled(group, n_pix, n_pp, poso_) ==
    LET poss  == Stack([i \in 1..Len(group) |-> position[group[i]]])
        posv  == ReshapeRows(NpTile(poss, n_pix), 3)
        rots  == Stack([i \in 1..Len(group) |-> orientation[group[i]]])
        rotv  == ReshapeRows(NpTile(rots, n_pix), 4)
        posov == NpTileRows(poso_, Len(group))
        src_type == attr[group[1]].object_type
        base  == [source_type |-> src_type, position |-> posv, observer |-> posov,
                  orientation |-> rotv]
    IN  CASE src_type = "Sphere" ->
                base @@ [magnetization |-> tile_mag(group, n_pp),
                         diameter |-> tile_dia(group, n_pp)]
          [] src_type = "Cuboid" ->
                base @@ [magnetization |-> tile_mag(group, n_pp),
                         dimension |-> tile_dim_cuboid(group, n_pp)]
          [] src_type = "Cylinder" ->
                base @@ [magnetization |-> tile_mag(group, n_pp),
                         dimension |-> tile_dim_cylinder(group, n_pp)]
          [] src_type = "CylinderSegment" ->
                base @@ [magnetization |-> tile_mag(group, n_pp),
                         dimension |-> tile_dim_cylinder_section(group, n_pp)]
          [] src_type = "Dipole" ->
                base @@ [moment |-> tile_moment(group, n_pp)]
          [] src_type = "Circular" ->
                base @@ [current |-> tile_current(group, n_pp),
                         diameter |-> tile_dia(group, n_pp)]
          [] src_type = "Line" ->
                base @@ [current |-> tile_current(group, n_pp),
                         vertices |-> [i \in 1..Len(group) |-> attr[group[i]].vertices]]
          [] OTHER -> Raise("MagpylibInternalError")

\* get_src_dict: the dictionary of level1 inputs of one group
get_src_dict(group, n_pix, n_pp, poso_) ==
    LET poss  == Stack([i \in 1..Len(group) |-> position[group[i]]])
        posv  == ReshapeRows(NpTile(poss, n_pix), 3)
        rots  == Stack([i \in 1..Len(group) |-> orientation[group[i]]])
        rotv  == ReshapeRows(NpTile(rots, n_pix), 4)
        posov == NpTileRows(poso_, Len(group))
        src_type == attr[group[1]].object_type
        base  == [source_type |-> src_type, position |-> posv, observer |-> posov,
                  orientation |-> rotv]
    IN  CASE src_type = "Sphere" ->
                base @@ [magnetization |-> tile_mag(group, n_pp),
                         diameter |-> tile_dia(group, n_pp)]
          [] src_type = "Cuboid" ->
                base @@ [magnetization |-> tile_mag(group, n_pp),
                         dimension |-> tile_dim_cuboid(group, n_pp)]
          [] src_type = "Cylinder" ->
                base @@ [magnetization |-> tile_mag(group, n_pp),
                         dimension |-> tile_dim_cylinder(group, n_pp)]
          [] src_type = "CylinderSegment" ->
                base @@ [magnetization |-> tile_mag(group, n_pp),
                         dimension |-> tile_dim_cylinder_section(group, n_pp)]
          [] src_type = "Dipole" ->
                base @@ [moment |-> tile_moment(group, n_pp)]
          [] src_type = "Circular" ->
                base @@ [current |-> tile_current(group, n_pp),
                         diameter |-> tile_dia(group, n_pp)]
          [] src_type = "Line" ->
                base @@ [current |-> AttrVector(group, "current"),
                         vertices |-> [i \in 1..Len(group) |-> attr[group[i]].vertices]]
          [] OTHER -> Raise("MagpylibInternalError")

(***************************************************************************)
(* getBH_level1: the field kernels.  For every row t of the packed input   *)
(* the field of the source of row t at the observer of row t: the observer *)
(* is brought into the source's frame, the closed-form expression of the   *)
(* kind is evaluated there, and the field is rotated back to the global    *)
(* frame.  Line tiles current and vertices itself, source by source.       *)
(***************************************************************************)
\* bucket number of a type tag, 0 when it is none of the seven
TypeNo(t) ==
    IF \E i \in 1..7 : SourceTypes[i] = t
    THEN CHOOSE i \in 1..7 : SourceTypes[i] = t ELSE 0

\* closed-form field of one source in its own frame: type tag, excitation
\* vector e, geometry scalars g, observer r relative to the source
field_func(t, e, g, r) ==
    <<e[1] * SeqSum(g) + r[1] + TypeNo(t),
      e[2] * SeqSum(g) - r[2],
      e[3] + SeqSum(g) * r[3]>>

\* excitation and geometry of row t (from 1) of a level1 input dictionary
KernelExcitation(d, t) ==
    CASE d.source_type \in {"Sphere", "Cuboid", "Cylinder", "CylinderSegment"} ->
            Row(d.magnetization, t)
      [] d.source_type = "Dipole" -> Row(d.moment, t)
      [] d.source_type = "Circular" ->
            <<d.current.data[t], d.current.data[t], d.current.data[t]>>
      [] d.source_type = "Line" ->
            LET s == ((t - 1) \div (d.position.shape[1] \div Len(d.vertices))) + 1
            IN  <<d.current.data[s], d.current.data[s], d.current.data[s]>>

KernelGeometry(d, t) ==
    CASE d.source_type \in {"Cuboid", "Cylinder", "CylinderSegment"} -> Row(d.dimension, t)
      [] d.source_type \in {"Sphere", "Circular"} -> <<d.diameter.data[t]>>
      [] d.source_type = "Dipole" -> <<1>>
      [] d.source_type = "Line" ->
            LET s == ((t - 1) \div (d.position.shape[1] \div Len(d.vertices))) + 1
            IN  d.vertices[s] \o <<Len(d.vertices[s])>>

VecSub(a, b) == <<a[1] - b[1], a[2] - b[2], a[3] - b[3]>>

getBH_level1(d) ==
    Arr(<<d.position.shape[1], 3>>,
        FlatSeq([t \in 1..d.position.shape[1] |->
            LET q == Row(d.orientation, t)
                r == QuatApply(QuatInv(q), VecSub(Row(d.observer, t), Row(d.position, t)))
            IN  QuatApply(q, field_func(d.source_type, KernelExcitation(d, t),
                                        KernelGeometry(d, t), r))]))

(***************************************************************************)
(* The stages of getBH_level2                                              *)
(***************************************************************************)
RECURSIVE SeqToSet(_)
SeqToSet(q) == IF q = <<>> THEN {} ELSE {Head(q)} \cup SeqToSet(Tail(q))

RECURSIVE SetMax(_)
SetMax(S) ==
    LET x == CHOOSE y \in S : TRUE
    IN  IF S = {x} THEN x ELSE Max(x, SetMax(S \ {x}))

\* obj_list = set(src_list + sensors): unique entries only
obj_list == SeqToSet(src_list) \cup SeqToSet(sensors)
l0 == Len(sources)
l == Len(src_list)
k == Len(sensors)

\* sensors whose orientation is the unit rotation at every step of their path
UnrotatedSensors(sens) ==
    [i \in 1..Len(sens) |->
        \A j \in 1..NpLen(orientation[sens[i]]) : Row(orientation[sens[i]], j) = unitQ]

\* the tiling repeating the first state of the path instead of the last
TiledPath_FirstState(path, m_tile) == Concat0(path, NpTileRows(Index0(path, 0), m_tile))

\* the tiling that fills an orientation path up with the unit rotation
\* instead of its last entry
TiledPath_UnitOrientation(path, m_tile) ==
    Concat0(path, NpTileRows(IF path.shape[2] = 4 THEN Vec(unitQ) ELSE Last0(path), m_tile))

\* a path array filled up with m_tile copies of its last entry:
\* np.concatenate((path, np.tile(path[-1], (m_tile,1))))
TiledPath(path, m_tile) == Concat0(path, NpTileRows(Last0(path), m_tile))

RECURSIVE Orderings(_)
\* the orders in which a loop may visit the elements of a Python set
Orderings(S) ==
    IF S = {} THEN {<<>>}
    ELSE UNION {{<<x>> \o rest : rest \in Orderings(S \ {x})} : x \in S}

RECURSIVE TileLoop_PerOccurrence(_, _, _)
\* the tiling loop running over a list with duplicates: an object that occurs
\* more than once among the sources and sensors is tiled a second time
TileLoop_PerOccurrence(paths, ord, mm) ==
    IF ord = <<>> THEN paths
    ELSE LET obj == Head(ord)
             m_tile == mm - reset_obj_m0[obj]
             n == Len(SelectSeq(src_list \o sensors, LAMBDA x : x = obj))
             once == TiledPath(paths[obj], m_tile)
         IN  TileLoop_PerOccurrence(
                [paths EXCEPT ![obj] = IF n >= 2 THEN TiledPath(once, m_tile) ELSE once],
                Tail(ord), mm)

RECURSIVE TileLoop(_, _, _)
\* for obj,m0 in zip(reset_obj, reset_obj_m0): the paths (a position or an
\* orientation map) after the passes for the objects of ord, in that order
TileLoop(paths, ord, mm) ==
    IF ord = <<>> THEN paths
    ELSE LET obj == Head(ord)
             m_tile == mm - reset_obj_m0[obj]
         IN  TileLoop([paths EXCEPT ![obj] = TiledPath(paths[obj], m_tile)], Tail(ord), mm)

RECURSIVE ResetLoop_OffByOne(_, _)
\* the restore loop cutting one state too late: obj.path = obj.path[:m0+1]
ResetLoop_OffByOne(paths, ord) ==
    IF ord = <<>> THEN paths
    ELSE LET obj == Head(ord)
         IN  ResetLoop_OffByOne(
                [paths EXCEPT ![obj] = Slice0(paths[obj], 0, reset_obj_m0[obj] + 1)],
                Tail(ord))

RECURSIVE ResetLoop(_, _)
\* for obj,m0 in zip(reset_obj, reset_obj_m0): obj.path = obj.path[:m0]
ResetLoop(paths, ord) ==
    IF ord = <<>> THEN paths
    ELSE LET obj == Head(ord)
         IN  ResetLoop([paths EXCEPT ![obj] = Slice0(paths[obj], 0, reset_obj_m0[obj])],
                       Tail(ord))

\* sens.pixel.reshape(-1,3)
PixelRows(sens) == ReshapeRows(attr[sens].pixel, 3)

\* the observation points of every step taken at the sensor's first state:
\* sens._position[0] and sens._orientation[0] instead of the zipped path
SensorPoso_FirstState(sens, j) ==
    AddRow(RotApply(Row(orientation[sens], 1), PixelRows(sens)), Row(position[sens], 1))

\* r.apply(sens.pixel.reshape(-1,3)) + p for step j (from 1) of a sensor's path
SensorPoso(sens, j) ==
    AddRow(RotApply(Row(orientation[sens], j), PixelRows(sens)), Row(position[sens], j))

\* number of (r, p) pairs zip(sens._orientation, sens._position) yields
ZipLen(sens) == Min(NpLen(orientation[sens]), NpLen(position[sens]))

\* poso with the sensors concatenated along axis 0: all steps of the first
\* sensor, then all steps of the next
CombinePoso_SensorMajor(sens) ==
    IF \E i \in 1..Len(sens) : ZipLen(sens[i]) # ZipLen(sens[1])
    THEN Raise("ValueError")
    ELSE ReshapeRows(
            Arr(<<0>>, FlatSeq([i \in 1..Len(sens) |->
                    FlatSeq([j \in 1..ZipLen(sens[1]) |-> SensorPoso(sens[i], j).data])])),
            3)

\* poso: np.concatenate over the sensors along axis 1, then reshape(-1,3)
CombinePoso(sens) ==
    IF \E i \in 1..Len(sens) : ZipLen(sens[i]) # ZipLen(sens[1])
    THEN Raise("ValueError")
    ELSE ReshapeRows(
            Arr(<<0>>, FlatSeq([j \in 1..ZipLen(sens[1]) |->
                    FlatSeq([i \in 1..Len(sens) |-> SensorPoso(sens[i], j).data])])),
            3)

n_pp == NpLen(poso)
n_pix == n_pp \div m

RECURSIVE IndicesOfType(_, _, _)
\* the flat-list indices (from 0) i >= from of the sources with type tag t
IndicesOfType(lst, t, from) ==
    IF from >= Len(lst) THEN <<>>
    ELSE (IF attr[lst[from + 1]].object_type = t THEN <<from>> ELSE <<>>)
            \o IndicesOfType(lst, t, from + 1)

\* order: per group the indices of its sources in src_list
GroupOrder(lst) == [b \in 1..7 |-> IndicesOfType(lst, SourceTypes[b], 0)]

\* src_sorted: per group its sources
GroupSorted(lst) ==
    [b \in 1..7 |-> [i \in 1..Len(GroupOrder(lst)[b]) |-> lst[GroupOrder(lst)[b][i] + 1]]]

\* values an element of an np.empty array may hold
EmptyFill == {0, 7}

\* np.empty(shape) whose memory happens to hold fill
NpEmpty(shape, fill) == Arr(shape, [e \in 1..Prod(shape) |-> fill])

RECURSIVE ScatterGroup_Sequential(_, _, _, _)
\* the scatter loop writing member i to row i: B[i] = B_group[i]
ScatterGroup_Sequential(Bcur, ord, B_group, i) ==
    IF i >= Len(ord) THEN Bcur
    ELSE ScatterGroup_Sequential(SetIndex0(Bcur, i, Index0(B_group, i)), ord, B_group, i + 1)

RECURSIVE ScatterGroup(_, _, _, _)
\* for i in range(lg): B[order[iii][i]] = B_group[i], from member i on
ScatterGroup(Bcur, ord, B_group, i) ==
    IF i >= Len(ord) THEN Bcur
    ELSE ScatterGroup(SetIndex0(Bcur, ord[i + 1], Index0(B_group, i)), ord, B_group, i + 1)

RECURSIVE EvaluateFrom(_, _)
\* the loop over the groups from group iii on: the array B, or an exception
\* and the last group whose kernel was invoked before it
EvaluateFrom(Bcur, iii) ==
    IF iii > 7 THEN Bcur
    ELSE IF src_sorted[iii] = <<>> THEN EvaluateFrom(Bcur, iii + 1)
    ELSE LET group    == src_sorted[iii]
             lg       == Len(group)
             src_dict == get_src_dict(group, n_pix, n_pp, poso)
         IN  IF Raised(src_dict) THEN src_dict @@ [calls |-> iii - 1]
             ELSE LET B_flat == getBH_level1(src_dict)
                  IN  IF ~CanReshape(B_flat, <<lg, m, n_pix, 3>>)
                      THEN Raise("ValueError") @@ [calls |-> iii]
                      ELSE EvaluateFrom(
                              ScatterGroup(Bcur, order[iii],
                                  Reshape(B_flat, <<lg, m, n_pix, 3>>), 0),
                              iii + 1)

\* the groups the kernel is invoked for
NonEmptyGroups == {iii \in 1..7 : src_sorted[iii] # <<>>}

RECURSIVE SumCollections(_, _)
\* the loop that sets B[i] to the sum of the slice of collection i, from entry i on
SumCollections(Bcur, i) ==
    IF i >= Len(sources) THEN Bcur
    ELSE IF attr[sources[i + 1]].object_type # "Collection"
    THEN SumCollections(Bcur, i + 1)
    ELSE LET col_len == Len(attr[sources[i + 1]].sources)
         IN  IF i >= NpLen(Bcur) THEN Raise("IndexError")
             ELSE SumCollections(
                    NpDelete0(SetIndex0(Bcur, i, NpSum0(Slice0(Bcur, i, i + col_len))),
                              i + 1, i + col_len),
                    i + 1)

\* pix_shape: the common pixel shape of the sensors
pix_shape == attr[sensors[1]].pixel.shape

\* k_pixel = int(np.product(pix_shape[:-1]))
k_pixel == Prod(SubSeq(pix_shape, 1, Len(pix_shape) - 1))

\* A[:, :, lo:hi] of a 4-D array
SliceAxis2(A, lo, hi) ==
    LET L == A.shape[1]
        M == A.shape[2]
        N == A.shape[3]
        a == Min(lo, N)
        b == Max(a, Min(hi, N))
    IN  Arr(<<L, M, b - a, 3>>,
            FlatSeq([r \in 1..(L * M) |-> SubSeq(A.data, ((r - 1) * N + a) * 3 + 1,
                                                 ((r - 1) * N + b) * 3)]))

\* A[:, :, lo:hi] = V
AssignAxis2(A, lo, hi, V) ==
    LET N == A.shape[3]
        a == Min(lo, N)
        b == Max(a, Min(hi, N))
        w == b - a
    IN  Arr(A.shape,
            [e \in 1..Len(A.data) |->
                LET q == ((e - 1) \div 3) % N
                    r == (e - 1) \div (3 * N)
                IN  IF q >= a /\ q < b
                    THEN V.data[(r * w + (q - a)) * 3 + ((e - 1) % 3) + 1]
                    ELSE A.data[e]])

\* A[:, j, lo:hi] of a 4-D array
SliceStep(A, j, lo, hi) ==
    LET L == A.shape[1]
        M == A.shape[2]
        N == A.shape[3]
        a == Min(lo, N)
        b == Max(a, Min(hi, N))
    IN  Arr(<<L, b - a, 3>>,
            FlatSeq([s \in 1..L |-> SubSeq(A.data, (((s - 1) * M + j) * N + a) * 3 + 1,
                                           (((s - 1) * M + j) * N + b) * 3)]))

\* A[:, j, lo:hi] = V
AssignStep(A, j, lo, hi, V) ==
    LET M == A.shape[2]
        N == A.shape[3]
        a == Min(lo, N)
        b == Max(a, Min(hi, N))
        w == b - a
    IN  Arr(A.shape,
            [e \in 1..Len(A.data) |->
                LET q  == ((e - 1) \div 3) % N
                    jj == ((e - 1) \div (3 * N)) % M
                    s  == (e - 1) \div (3 * N * M)
                IN  IF jj = j /\ q >= a /\ q < b
                    THEN V.data[(s * w + (q - a)) * 3 + ((e - 1) % 3) + 1]
                    ELSE A.data[e]])

\* the static branch applying the sensor rotation itself instead of its inverse:
\* sens._orientation[0].apply(Bpart_flat)
RotateStatic_NoInverse(Bcur, i) ==
    LET Bpart == SliceAxis2(Bcur, i * k_pixel, (i + 1) * k_pixel)
    IN  IF ~CanReshape(Bpart, <<k_pixel * l0 * m, 3>>) THEN Raise("ValueError")
        ELSE LET Bpart_flat == Reshape(Bpart, <<k_pixel * l0 * m, 3>>)
                 Bpart_flat_rot ==
                    RotApply(Row(orientation[sensors[i + 1]], 1), Bpart_flat)
             IN  IF Bpart.shape # <<l0, m, k_pixel, 3>> THEN Raise("ValueError")
                 ELSE AssignAxis2(Bcur, i * k_pixel, (i + 1) * k_pixel,
                                  Reshape(Bpart_flat_rot, <<l0, m, k_pixel, 3>>))

\* special case, same rotation along the path: one rotation of the sensor's part
RotateStatic(Bcur, i) ==
    LET Bpart == SliceAxis2(Bcur, i * k_pixel, (i + 1) * k_pixel)
    IN  IF ~CanReshape(Bpart, <<k_pixel * l0 * m, 3>>) THEN Raise("ValueError")
        ELSE LET Bpart_flat == Reshape(Bpart, <<k_pixel * l0 * m, 3>>)
                 Bpart_flat_rot ==
                    RotApply(QuatInv(Row(orientation[sensors[i + 1]], 1)), Bpart_flat)
             IN  IF Bpart.shape # <<l0, m, k_pixel, 3>> THEN Raise("ValueError")
                 ELSE AssignAxis2(Bcur, i * k_pixel, (i + 1) * k_pixel,
                                  Reshape(Bpart_flat_rot, <<l0, m, k_pixel, 3>>))

RECURSIVE RotateGeneral(_, _, _)
\* general case, different rotations along the path: for j in range(m), from step j on
RotateGeneral(Bcur, i, j) ==
    IF j >= m THEN Bcur
    ELSE LET Bpart == SliceStep(Bcur, j, i * k_pixel, (i + 1) * k_pixel)
         IN  IF ~CanReshape(Bpart, <<k_pixel * l0, 3>>) THEN Raise("ValueError")
             ELSE IF Bpart.shape # <<l0, k_pixel, 3>> THEN Raise("ValueError")
             ELSE LET Bpart_flat == Reshape(Bpart, <<k_pixel * l0, 3>>)
                      Bpart_flat_rot ==
                        RotApply(QuatInv(Row(orientation[sensors[i + 1]], j + 1)),
                                 Bpart_flat)
                  IN  RotateGeneral(
                        AssignStep(Bcur, j, i * k_pixel, (i + 1) * k_pixel,
                                   Reshape(Bpart_flat_rot, <<l0, k_pixel, 3>>)),
                        i, j + 1)

RECURSIVE RotateSensors(_, _)
\* the loop over the sensors that applies the sensor rotations, from sensor i on
RotateSensors(Bcur, i) ==
    IF i >= Len(sensors) THEN Bcur
    ELSE IF unrotated_sensors[i + 1] THEN RotateSensors(Bcur, i + 1)
    ELSE LET Brot == IF static_sensor_rot[i + 1] THEN RotateStatic(Bcur, i)
                     ELSE RotateGeneral(Bcur, i, 0)
         IN  IF Raised(Brot) THEN Brot ELSE RotateSensors(Brot, i + 1)

\* the final reshape with the path axis and the sensor axis swapped
OutputShape_SwappedAxes == <<l0, k, m>> \o pix_shape

\* sens_px_shape = (k,) + pix_shape; the shape (l0,m) + sens_px_shape
OutputShape == <<l0, m, k>> \o pix_shape

(***************************************************************************)
(* Collection (class_Collection.py).  A Collection object refers to a      *)
(* Python list, its _sources; two Collection objects can refer to the same *)
(* list.  Lists that no Collection refers to any more are dropped.         *)
(***************************************************************************)
\* the longest argument list of an operation
MaxArgs == 2

\* the Collection objects of the caller and the lists their _sources can be
ColNames == {"colA", "colB"}
ListIds == 1..Cardinality(ColNames)

\* what is passed to the operations: sources, a sensor, Collections
ColItems == {"s1", "s2", "k1"}
ArgItems == ColItems \cup ColNames
ArgLists == {<<>>} \cup SeqsUpTo(ArgItems, MaxArgs)

NoOp == [op |-> "none", err |-> ""]

\* no Collection has been constructed
NoCollections ==
    /\ lists = [i \in ListIds |-> <<>>]
    /\ col = [c \in ColNames |-> 0]
    /\ col_op = NoOp

\* the Collection object exists; its _sources
Constructed(c) == col[c] # 0
SourcesOf(c) == lists[col[c]]

\* only Collections that exist can be passed
Passable(args) ==
    \A i \in 1..Len(args) : args[i] \in ColNames => Constructed(args[i])

\* format_obj_input: the flat list of the objects, a Collection replaced by
\* its sources
format_obj_input(objs) ==
    FlatSeq([i \in 1..Len(objs) |->
        IF objs[i] \in ColNames THEN SourcesOf(objs[i]) ELSE <<objs[i]>>])

RECURSIVE check_duplicates(_)
\* check_duplicates: the list without duplicates, the first occurrence kept
check_duplicates(lst) ==
    IF lst = <<>> THEN <<>>
    ELSE LET front == check_duplicates(SubSeq(lst, 1, Len(lst) - 1))
             last  == lst[Len(lst)]
         IN  IF last \in SeqToSet(front) THEN front ELSE Append(front, last)

\* only_allowed_src_types: the list without the objects that are no sources
only_allowed_src_types(lst) ==
    SelectSeq(lst, LAMBDA o : o \in SourceIds)

\* the list object a new list of Collection c is stored in
FreshList(c) ==
    CHOOSE i \in ListIds :
        /\ \A d \in ColNames \ {c} : col[d] # i
        /\ \A j \in ListIds : (\A d \in ColNames \ {c} : col[d] # j) => i <= j

\* self._sources = lst: c refers to a new list
Rebind(c, lst) ==
    /\ lists' = [i \in ListIds |->
                    IF i = FreshList(c) THEN lst
                    ELSE IF \E d \in ColNames \ {c} : col[d] = i THEN lists[i]
                    ELSE <<>>]
    /\ col' = [col EXCEPT ![c] = FreshList(c)]

\* everything a call of getBH_level2 works on
call_state ==
    <<objects, arguments, pc, err, src_list, sensors, unrotated_sensors,
      static_sensor_rot, m, reset_obj, reset_obj_m0, poso, src_sorted, order, B,
      result, history, kernel_calls, stage_history>>

\* the sources setter: format, eliminate duplicates, keep source types only
SetterBody(c, args, name) ==
    /\ pc = "idle"
    /\ Passable(args)
    /\ Rebind(c, only_allowed_src_types(check_duplicates(format_obj_input(args))))
    /\ col_op' = [op |-> name, err |-> ""]
    /\ UNCHANGED call_state

\* Collection(*sources)
Construct(c, args) == ~Constructed(c) /\ SetterBody(c, args, "__init__")

\* col.sources = sources
SetSources(c, args) == Constructed(c) /\ SetterBody(c, args, "sources")

\* add with the new sources put in front of the original list
AddBody_NewFirst(c, args, name) ==
    /\ pc = "idle"
    /\ Constructed(c)
    /\ Passable(args)
    /\ Rebind(c, check_duplicates(format_obj_input(args) \o SourcesOf(c)))
    /\ col_op' = [op |-> name, err |-> ""]
    /\ UNCHANGED call_state

\* add(*sources): combined with the original list, duplicates eliminated
AddBody(c, args, name) ==
    /\ pc = "idle"
    /\ Constructed(c)
    /\ Passable(args)
    /\ Rebind(c, check_duplicates(SourcesOf(c) \o format_obj_input(args)))
    /\ col_op' = [op |-> name, err |-> ""]
    /\ UNCHANGED call_state

Add(c, args) == AddBody(c, args, "add")

\* col + source
Plus(c, source) == AddBody(c, <<source>>, "__add__")

\* a list without the first occurrence of x
ListRemove(lst, x) ==
    LET i == CHOOSE n \in 1..Len(lst) : lst[n] = x /\ \A q \in 1..(n - 1) : lst[q] # x
    IN  SubSeq(lst, 1, i - 1) \o SubSeq(lst, i + 1, Len(lst))

\* self._sources.remove(source): the list itself is changed, ValueError when
\* the source is not in it
RemoveBody(c, source, name) ==
    /\ pc = "idle"
    /\ Constructed(c)
    /\ IF source \in SeqToSet(SourcesOf(c))
       THEN /\ lists' = [lists EXCEPT ![col[c]] = ListRemove(SourcesOf(c), source)]
            /\ col_op' = [op |-> name, err |-> ""]
       ELSE /\ lists' = lists
            /\ col_op' = [op |-> name, err |-> "ValueError"]
    /\ col' = col
    /\ UNCHANGED call_state

Remove(c, source) == RemoveBody(c, source, "remove")

\* col - source
Minus(c, source) == RemoveBody(c, source, "__sub__")

\* d = c.copy(): copy.copy(self), a new object with the same attribute values
Copy(c, d) ==
    /\ pc = "idle"
    /\ Constructed(c)
    /\ ~Constructed(d)
    /\ col' = [col EXCEPT ![d] = col[c]]
    /\ lists' = lists
    /\ col_op' = [op |-> "copy", err |-> ""]
    /\ UNCHANGED call_state

\* no call of getBH_level2 is under way, no Collection exists yet
InitCollections ==
    /\ attr = Attr0
    /\ position = Position0
    /\ orientation = Orientation0
    /\ sources = <<>>
    /\ observers = <<>>
    /\ sumup = FALSE
    /\ squeeze = FALSE
    /\ pc = "idle"
    /\ err = ""
    /\ src_list = <<>>
    /\ sensors = <<>>
    /\ unrotated_sensors = <<>>
    /\ static_sensor_rot = <<>>
    /\ m = 0
    /\ reset_obj = {}
    /\ reset_obj_m0 = <<>>
    /\ poso = NoArr
    /\ src_sorted = <<>>
    /\ order = <<>>
    /\ B = NoArr
    /\ result = NoResult
    /\ position_pre = Position0
    /\ orientation_pre = Orientation0
    /\ kernel_calls = {}
    /\ B_unsummed = NoArr
    /\ B_unsqueezed = NoArr
    /\ NoCollections

NextCollections ==
    \E c \in ColNames :
        \/ \E args \in ArgLists : Construct(c, args)
        \/ \E args \in ArgLists : SetSources(c, args)
        \/ \E args \in ArgLists : Add(c, args)
        \/ \E source \in ArgItems : Plus(c, source)
        \/ \E source \in ArgItems : Remove(c, source)
        \/ \E source \in ArgItems : Minus(c, source)
        \/ \E d \in ColNames : Copy(c, d)

CollectionSpec == InitCollections /\ [][NextCollections]_vars

(***************************************************************************)
(* getBH_level2, stage by stage                                            *)
(***************************************************************************)
Init ==
    /\ attr = Attr0
    /\ position = Position0
    /\ orientation = Orientation0
    /\ sources \in SourceInputs
    /\ observers \in ObserverInputs
    /\ sumup = FALSE
    /\ squeeze = FALSE
    /\ pc = "start"
    /\ err = ""
    /\ src_list = <<>>
    /\ sensors = <<>>
    /\ unrotated_sensors = <<>>
    /\ static_sensor_rot = <<>>
    /\ m = 0
    /\ reset_obj = {}
    /\ reset_obj_m0 = <<>>
    /\ poso = NoArr
    /\ src_sorted = <<>>
    /\ order = <<>>
    /\ B = NoArr
    /\ result = NoResult
    /\ position_pre = Position0
    /\ orientation_pre = Orientation0
    /\ kernel_calls = {}
    /\ B_unsummed = NoArr
    /\ B_unsqueezed = NoArr
    /\ NoCollections

\* the call ends with exception e
RaiseError(e) ==
    /\ pc' = "raised"
    /\ err' = e

\* the input stage with the pixel-shape test placed behind the tiling loop:
\* the paths are tiled up before MagpylibBadUserInput is raised
CheckAndFormatInput_ShapeTestAfterTiling ==
    /\ pc = "start"
    /\ LET sl   == format_src_inputs(sources)
           sens == format_obs_inputs(observers)
           pix_shapes == [i \in 1..Len(sens) |-> attr[sens[i]].pixel.shape]
           objs == SeqToSet(sl) \cup SeqToSet(sens)
           path_lengths == [obj \in objs |-> NpLen(position[obj])]
           mm   == SetMax({path_lengths[obj] : obj \in objs})
           tiled(paths) ==
                [o \in PathIds |->
                    IF o \in objs /\ path_lengths[o] < mm
                    THEN TiledPath(paths[o], mm - path_lengths[o]) ELSE paths[o]]
       IN  IF ~check_dimensions(sources)
           THEN /\ RaiseError("MagpylibBadInputShape:dimension")
                /\ UNCHANGED <<src_list, sensors, unrotated_sensors, static_sensor_rot,
                               m, reset_obj, reset_obj_m0, position, orientation>>
           ELSE IF ~check_excitations(sources)
           THEN /\ RaiseError("MagpylibBadInputShape:excitation")
                /\ UNCHANGED <<src_list, sensors, unrotated_sensors, static_sensor_rot,
                               m, reset_obj, reset_obj_m0, position, orientation>>
           ELSE /\ src_list' = sl
                /\ sensors' = sens
                /\ unrotated_sensors' = UnrotatedSensors(sens)
                /\ static_sensor_rot' = check_static_sensor_orient(sens)
                /\ m' = mm
                /\ reset_obj' = {obj \in objs : mm # path_lengths[obj]}
                /\ reset_obj_m0' =
                        [obj \in {o \in objs : mm # path_lengths[o]} |-> path_lengths[obj]]
                /\ IF ~all_same(pix_shapes)
                   THEN /\ position' = tiled(position)
                        /\ orientation' = tiled(orientation)
                        /\ RaiseError("MagpylibBadUserInput")
                   ELSE /\ pc' = "tile"
                        /\ err' = err
                        /\ UNCHANGED <<position, orientation>>
    /\ UNCHANGED stage_history
    /\ UNCHANGED collections
    /\ UNCHANGED <<attr, arguments, history, poso, src_sorted, order, B,
                   result, kernel_calls>>

\* check and format input, some important quantities, objects to tile up
CheckAndFormatInput ==
    /\ pc = "start"
    /\ LET sl   == format_src_inputs(sources)
           sens == format_obs_inputs(observers)
           pix_shapes == [i \in 1..Len(sens) |-> attr[sens[i]].pixel.shape]
           objs == SeqToSet(sl) \cup SeqToSet(sens)
           path_lengths == [obj \in objs |-> NpLen(position[obj])]
           mm   == SetMax({path_lengths[obj] : obj \in objs})
       IN  IF ~check_dimensions(sources)
           THEN /\ RaiseError("MagpylibBadInputShape:dimension")
                /\ UNCHANGED <<src_list, sensors, unrotated_sensors, static_sensor_rot,
                               m, reset_obj, reset_obj_m0>>
           ELSE IF ~check_excitations(sources)
           THEN /\ RaiseError("MagpylibBadInputShape:excitation")
                /\ UNCHANGED <<src_list, sensors, unrotated_sensors, static_sensor_rot,
                               m, reset_obj, reset_obj_m0>>
           ELSE IF ~all_same(pix_shapes)
           THEN /\ RaiseError("MagpylibBadUserInput")
                /\ src_list' = sl
                /\ sensors' = sens
                /\ UNCHANGED <<unrotated_sensors, static_sensor_rot,
                               m, reset_obj, reset_obj_m0>>
           ELSE /\ src_list' = sl
                /\ sensors' = sens
                /\ unrotated_sensors' = UnrotatedSensors(sens)
                /\ static_sensor_rot' = check_static_sensor_orient(sens)
                /\ m' = mm
                /\ reset_obj' = {obj \in objs : mm # path_lengths[obj]}
                /\ reset_obj_m0' =
                        [obj \in {o \in objs : mm # path_lengths[o]} |-> path_lengths[obj]]
                /\ pc' = "tile"
                /\ err' = err
    /\ UNCHANGED stage_history
    /\ UNCHANGED collections
    /\ UNCHANGED <<objects, arguments, history, poso, src_sorted, order, B,
                   result, kernel_calls>>

\* tile up paths: the loop over zip(reset_obj, reset_obj_m0), skipped when
\* m = 1; the objects come in the iteration order of a Python set, any order
TileUpPaths ==
    /\ pc = "tile"
    /\ \E ord \in Orderings(reset_obj) :
        /\ position' = IF m > 1 THEN TileLoop(position, ord, m) ELSE position
        /\ orientation' = IF m > 1 THEN TileLoop(orientation, ord, m) ELSE orientation
    /\ pc' = "observers"
    /\ UNCHANGED stage_history
    /\ UNCHANGED collections
    /\ UNCHANGED <<attr, arguments, history, err, src_list, sensors,
                   unrotated_sensors, static_sensor_rot, m, reset_obj, reset_obj_m0,
                   poso, src_sorted, order, B, result, kernel_calls>>

\* the observer stage reshaping the pixel arrays in place:
\* sens.pixel = sens.pixel.reshape(-1,3)
CombineSensors_PixelInPlace ==
    /\ pc = "observers"
    /\ LET p == CombinePoso(sensors)
       IN  IF Raised(p) THEN RaiseError(p.raise) /\ poso' = poso
           ELSE poso' = p /\ pc' = "group" /\ err' = err
    /\ attr' = [o \in DOMAIN attr |->
                    IF o \in SeqToSet(sensors)
                    THEN [attr[o] EXCEPT !.pixel = PixelRows(o)]
                    ELSE attr[o]]
    /\ UNCHANGED stage_history
    /\ UNCHANGED collections
    /\ UNCHANGED <<position, orientation, arguments, history, src_list, sensors,
                   unrotated_sensors, static_sensor_rot, m, reset_obj, reset_obj_m0,
                   src_sorted, order, B, result, kernel_calls>>

\* combine information from all sensors to generate pos_obs
CombineSensors ==
    /\ pc = "observers"
    /\ LET p == CombinePoso(sensors)
       IN  IF Raised(p) THEN RaiseError(p.raise) /\ poso' = poso
           ELSE poso' = p /\ pc' = "group" /\ err' = err
    /\ UNCHANGED stage_history
    /\ UNCHANGED collections
    /\ UNCHANGED <<objects, arguments, history, src_list, sensors,
                   unrotated_sensors, static_sensor_rot, m, reset_obj, reset_obj_m0,
                   src_sorted, order, B, result, kernel_calls>>

\* group similar source types
GroupSources ==
    /\ pc = "group"
    /\ src_sorted' = GroupSorted(src_list)
    /\ order' = GroupOrder(src_list)
    /\ pc' = "evaluate"
    /\ UNCHANGED stage_history
    /\ UNCHANGED collections
    /\ UNCHANGED <<objects, arguments, history, err, src_list, sensors,
                   unrotated_sensors, static_sensor_rot, m, reset_obj, reset_obj_m0,
                   poso, B, result, kernel_calls>>

\* evaluate each group in one vectorized step
EvaluateGroups ==
    /\ pc = "evaluate"
    /\ \E fill \in EmptyFill :
        LET r == EvaluateFrom(NpEmpty(<<l, m, n_pix, 3>>, fill), 1)
        IN  IF Raised(r)
            THEN /\ RaiseError(r.raise)
                 /\ B' = B
                 /\ kernel_calls' = {g \in NonEmptyGroups : g <= r.calls}
            ELSE /\ B' = r
                 /\ kernel_calls' = NonEmptyGroups
                 /\ pc' = "collections"
                 /\ err' = err
    /\ UNCHANGED stage_history
    /\ UNCHANGED collections
    /\ UNCHANGED <<objects, arguments, history, src_list, sensors,
                   unrotated_sensors, static_sensor_rot, m, reset_obj, reset_obj_m0,
                   poso, src_sorted, order, result>>

\* rearrange B when there is at least one Collection with more than one source
SumUpCollections ==
    /\ pc = "collections"
    /\ LET r == IF l > l0 THEN SumCollections(B, 0) ELSE B
       IN  IF Raised(r) THEN RaiseError(r.raise) /\ B' = B
           ELSE B' = r /\ pc' = "rotate" /\ err' = err
    /\ UNCHANGED stage_history
    /\ UNCHANGED collections
    /\ UNCHANGED <<objects, arguments, history, src_list, sensors,
                   unrotated_sensors, static_sensor_rot, m, reset_obj, reset_obj_m0,
                   poso, src_sorted, order, result, kernel_calls>>

\* the rotation stage inside a try/finally: the restore loop runs when the
\* stage raises
ApplySensorRotations_RestoreOnError ==
    /\ pc = "rotate"
    /\ LET r == RotateSensors(B, 0)
       IN  IF Raised(r)
           THEN /\ RaiseError(r.raise)
                /\ B' = B
                /\ \E ord \in Orderings(reset_obj) :
                      /\ position' = ResetLoop(position, ord)
                      /\ orientation' = ResetLoop(orientation, ord)
           ELSE /\ B' = r
                /\ pc' = "reshape"
                /\ err' = err
                /\ UNCHANGED <<position, orientation>>
    /\ UNCHANGED stage_history
    /\ UNCHANGED collections
    /\ UNCHANGED <<attr, arguments, history, src_list, sensors,
                   unrotated_sensors, static_sensor_rot, m, reset_obj, reset_obj_m0,
                   poso, src_sorted, order, result, kernel_calls>>

\* apply sensor rotations
ApplySensorRotations ==
    /\ pc = "rotate"
    /\ LET r == RotateSensors(B, 0)
       IN  IF Raised(r) THEN RaiseError(r.raise) /\ B' = B
           ELSE B' = r /\ pc' = "reshape" /\ err' = err
    /\ UNCHANGED stage_history
    /\ UNCHANGED collections
    /\ UNCHANGED <<objects, arguments, history, src_list, sensors,
                   unrotated_sensors, static_sensor_rot, m, reset_obj, reset_obj_m0,
                   poso, src_sorted, order, result, kernel_calls>>

\* rearrange sensor-pixel shape
RearrangePixelShape ==
    /\ pc = "reshape"
    /\ IF ~CanReshape(B, OutputShape) THEN RaiseError("ValueError") /\ B' = B
       ELSE B' = Reshape(B, OutputShape) /\ pc' = "sumup" /\ err' = err
    /\ UNCHANGED stage_history
    /\ UNCHANGED collections
    /\ UNCHANGED <<objects, arguments, history, src_list, sensors,
                   unrotated_sensors, static_sensor_rot, m, reset_obj, reset_obj_m0,
                   poso, src_sorted, order, result, kernel_calls>>

\* np.sum(A, axis=1): the sum taken over the second axis instead of the first
NpSum0_Axis1(A) ==
    LET n1 == A.shape[1]
        n2 == A.shape[2]
        w  == Prod(SubSeq(A.shape, 3, Len(A.shape)))
        RECURSIVE part(_, _, _)
        part(i, e, j) ==
            IF j = 0 THEN 0 ELSE A.data[((i - 1) * n2 + (j - 1)) * w + e] + part(i, e, j - 1)
    IN  Arr(<<n1>> \o SubSeq(A.shape, 3, Len(A.shape)),
            [x \in 1..(n1 * w) |-> part(((x - 1) \div w) + 1, ((x - 1) % w) + 1, n2)])

\* the sumup stage summing over the path axis: B = np.sum(B, axis=1)
SumUp_PathAxis ==
    /\ pc = "sumup"
    /\ \E flag \in BOOLEAN :
        /\ sumup' = flag
        /\ B' = IF flag THEN NpSum0_Axis1(B) ELSE B
    /\ pc' = "squeeze"
    /\ B_unsummed' = B
    /\ UNCHANGED B_unsqueezed
    /\ UNCHANGED collections
    /\ UNCHANGED <<objects, sources, observers, squeeze, history, err, src_list, sensors,
                   unrotated_sensors, static_sensor_rot, m, reset_obj, reset_obj_m0,
                   poso, src_sorted, order, result, kernel_calls>>

\* sumup followed directly by the restore step, the squeeze left behind it
SumUp_ThenRestore ==
    /\ pc = "sumup"
    /\ \E flag \in BOOLEAN :
        /\ sumup' = flag
        /\ B' = IF flag THEN NpSum0(B) ELSE B
    /\ pc' = "reset"
    /\ B_unsummed' = B
    /\ UNCHANGED B_unsqueezed
    /\ UNCHANGED collections
    /\ UNCHANGED <<objects, sources, observers, squeeze, history, err, src_list, sensors,
                   unrotated_sensors, static_sensor_rot, m, reset_obj, reset_obj_m0,
                   poso, src_sorted, order, result, kernel_calls>>

\* if sumup: B = np.sum(B, axis=0)
SumUp ==
    /\ pc = "sumup"
    /\ \E flag \in BOOLEAN :
        /\ sumup' = flag
        /\ B' = IF flag THEN NpSum0(B) ELSE B
    /\ pc' = "squeeze"
    /\ B_unsummed' = B
    /\ UNCHANGED B_unsqueezed
    /\ UNCHANGED collections
    /\ UNCHANGED <<objects, sources, observers, squeeze, history, err, src_list, sensors,
                   unrotated_sensors, static_sensor_rot, m, reset_obj, reset_obj_m0,
                   poso, src_sorted, order, result, kernel_calls>>

\* reduce all size-1 levels: if squeeze: B = np.squeeze(B)
Squeeze ==
    /\ pc = "squeeze"
    /\ \E flag \in BOOLEAN :
        /\ squeeze' = flag
        /\ B' = IF flag THEN NpSqueeze(B) ELSE B
    /\ pc' = "reset"
    /\ B_unsqueezed' = B
    /\ UNCHANGED B_unsummed
    /\ UNCHANGED collections
    /\ UNCHANGED <<objects, sources, observers, sumup, history, err, src_list, sensors,
                   unrotated_sensors, static_sensor_rot, m, reset_obj, reset_obj_m0,
                   poso, src_sorted, order, result, kernel_calls>>

\* reset tiled objects, and return B
ResetTiledObjects ==
    /\ pc = "reset"
    /\ \E ord \in Orderings(reset_obj) :
        /\ position' = ResetLoop(position, ord)
        /\ orientation' = ResetLoop(orientation, ord)
    /\ result' = B
    /\ pc' = "done"
    /\ UNCHANGED stage_history
    /\ UNCHANGED collections
    /\ UNCHANGED <<attr, arguments, history, err, src_list, sensors,
                   unrotated_sensors, static_sensor_rot, m, reset_obj, reset_obj_m0,
                   poso, src_sorted, order, B, kernel_calls>>

Next ==
    \/ CheckAndFormatInput
    \/ TileUpPaths
    \/ CombineSensors
    \/ GroupSources
    \/ EvaluateGroups
    \/ SumUpCollections
    \/ ApplySensorRotations
    \/ RearrangePixelShape
    \/ SumUp
    \/ Squeeze
    \/ ResetTiledObjects

Spec == Init /\ [][Next]_vars

(***************************************************************************)
(* The field the documentation promises, written down point by point from  *)
(* the objects as the caller left them: source s seen by pixel p of sensor *)
(* sens at path step j, a shorter path standing still at its last state.   *)
(***************************************************************************)
\* state j (from 1) of a path, its last state from its end on
StateAt(path, j) == Row(path, Min(j, NpLen(path)))

VecAdd(a, b) == <<a[1] + b[1], a[2] + b[2], a[3] + b[3]>>

\* excitation and geometry of a source object, as its kernel takes them
SourceExcitation(s) ==
    LET a == attr[s]
    IN  CASE a.object_type \in {"Sphere", "Cuboid", "Cylinder", "CylinderSegment"} ->
                a.magnetization
          [] a.object_type = "Dipole" -> a.moment
          [] a.object_type \in {"Circular", "Line"} ->
                <<a.current[1], a.current[1], a.current[1]>>

SourceGeometry(s) ==
    LET a == attr[s]
    IN  CASE a.object_type \in {"Cuboid", "Cylinder", "CylinderSegment"} -> a.dimension
          [] a.object_type \in {"Sphere", "Circular"} -> a.diameter
          [] a.object_type = "Dipole" -> <<1>>
          [] a.object_type = "Line" -> a.vertices \o <<Len(a.vertices)>>

\* the field of s at pixel p of sens at step j, in the sensor's own frame
RefField(s, sens, j, p) ==
    LET qs  == StateAt(orientation_pre[s], j)
        ps  == StateAt(position_pre[s], j)
        qk  == StateAt(orientation_pre[sens], j)
        pk  == StateAt(position_pre[sens], j)
        obs == VecAdd(QuatApply(qk, Row(PixelRows(sens), p)), pk)
        r   == QuatApply(QuatInv(qs), VecSub(obs, ps))
        Bg  == QuatApply(qs, field_func(attr[s].object_type, SourceExcitation(s),
                                        SourceGeometry(s), r))
    IN  QuatApply(QuatInv(qk), Bg)

RECURSIVE RefSum(_, _, _, _)
\* the summed field of a list of sources at one pixel and step
RefSum(members, sens, j, p) ==
    IF members = <<>> THEN <<0, 0, 0>>
    ELSE VecAdd(RefField(Head(members), sens, j, p), RefSum(Tail(members), sens, j, p))

\* the full tensor for a list of rows (each a list of sources), a list of
\* sensors and M path steps: shape (rows, M, sensors, pixel shape..., 3)
RefTensor(rows, obs, M) ==
    LET shp == attr[obs[1]].pixel.shape
        np  == Prod(shp) \div 3
    IN  Arr(<<Len(rows), M, Len(obs)>> \o shp,
            FlatSeq([i \in 1..Len(rows) |->
                FlatSeq([j \in 1..M |->
                    FlatSeq([kk \in 1..Len(obs) |->
                        FlatSeq([p \in 1..np |-> RefSum(rows[i], obs[kk], j, p)])])])]))

\* the sources a top-level entry stands for
Members(entry) ==
    IF attr[entry].object_type = "Collection" THEN attr[entry].sources ELSE <<entry>>

\* the distinct objects of a call and the longest path among them before it
Participants ==
    UNION {SeqToSet(Members(sources[i])) : i \in 1..Len(sources)} \cup SeqToSet(observers)

MaxPathLength == SetMax({NpLen(position_pre[o]) : o \in Participants})

\* is it one of the seven kinds
KnownKind(s) == \E b \in 1..7 : attr[s].object_type = SourceTypes[b]

(***************************************************************************)
(* Claims                                                                  *)
(***************************************************************************)
\* the stages of a call between the end of the tiling and the restore step
TiledStages ==
    {"observers", "group", "evaluate", "collections", "rotate", "reshape",
     "sumup", "squeeze", "reset"}

\* C1: after every call that returns a result, whatever sumup and squeeze
\* are, the position path and the orientation path of every participating
\* source and observer equal, in length and content, the paths before the call
C1_PathsRestored ==
    pc = "done" =>
        \A o \in Participants :
            /\ position[o] = position_pre[o]
            /\ orientation[o] = orientation_pre[o]

\* a returned call in which one participant was tiled and another already
\* had the full length m > 1
C1_Witness ==
    /\ pc = "done"
    /\ result # NoResult
    /\ \E o \in Participants : NpLen(position_pre[o]) < MaxPathLength
    /\ \E o \in Participants :
            NpLen(position_pre[o]) = MaxPathLength /\ MaxPathLength > 1

\* C2: from the end of the tiling step until the restore step every distinct
\* participant has path length m, the maximum of the lengths before the call;
\* a path of original length p0 < m keeps its first p0 states and is followed
\* by m - p0 copies of its state at index p0 - 1
C2_TiledPaths ==
    pc \in TiledStages =>
        /\ m = MaxPathLength
        /\ \A o \in Participants :
            /\ position[o].shape = <<MaxPathLength, 3>>
            /\ orientation[o].shape = <<MaxPathLength, 4>>
            /\ \A j \in 1..MaxPathLength :
                /\ Row(position[o], j) = StateAt(position_pre[o], j)
                /\ Row(orientation[o], j) = StateAt(orientation_pre[o], j)

\* during the evaluation a participant with 1 < p0 < m stands tiled
C2_Witness ==
    /\ pc = "evaluate"
    /\ \E o \in Participants :
        /\ NpLen(position_pre[o]) > 1
        /\ NpLen(position_pre[o]) < MaxPathLength
        /\ NpLen(position[o]) = MaxPathLength

\* the errors a bad input is reported with
BadInputErrors ==
    {"MagpylibBadUserInput", "MagpylibBadInputShape:dimension",
     "MagpylibBadInputShape:excitation"}

\* C3: a bad-input error is raised before any path is tiled and before any
\* field kernel is invoked: after the failed call no path differs from its
\* value before the call and no result is returned
C3_BadInputLeavesNoTrace ==
    (pc = "raised" /\ err \in BadInputErrors) =>
        /\ position = position_pre
        /\ orientation = orientation_pre
        /\ kernel_calls = {}
        /\ B = NoArr
        /\ result = NoResult

\* a call rejected for differing pixel shapes whose paths differ in length,
\* so that the tiling would have changed one of them
C3_Witness ==
    /\ pc = "raised"
    /\ err = "MagpylibBadUserInput"
    /\ \E i, j \in 1..Len(observers) :
        /\ attr[observers[i]].pixel.shape # attr[observers[j]].pixel.shape
        /\ NpLen(position[observers[i]]) # NpLen(position[observers[j]])

\* C4: if the flattened source list holds a source whose type tag is none of
\* the seven kinds, the call fails and returns no result; it never continues
\* past such a source
C4_UnknownKindFails ==
    (\E s \in Participants \ SeqToSet(observers) : ~KnownKind(s)) =>
        /\ pc \notin {"collections", "rotate", "reshape", "sumup", "squeeze", "reset", "done"}
        /\ result = NoResult

\* C5: with sumup=False and squeeze=False every successful call returns a
\* tensor of shape (L0, m, K) + pixel_shape[:-1] + (3,): L0 top-level
\* entries, m the longest path of the participants, K observers
C5_ResultShape ==
    (pc = "done" /\ ~sumup /\ ~squeeze) =>
        LET shp == attr[observers[1]].pixel.shape
        IN  /\ result.shape = <<Len(sources), MaxPathLength, Len(observers)>>
                                \o SubSeq(shp, 1, Len(shp) - 1) \o <<3>>
            /\ Len(result.data) = Prod(result.shape)

\* a collection next to a plain source, two observers, a path longer than 1
C5_Witness ==
    /\ pc = "done" /\ ~sumup /\ ~squeeze
    /\ Len(sources) = 2
    /\ Len(format_src_inputs(sources)) > 2
    /\ Len(observers) = 2
    /\ MaxPathLength > 1
    /\ result.shape[1] = 2
    /\ result.shape[2] # result.shape[3]

\* is it a source of one of the seven kinds whose path has a single state
StaticSource(s) ==
    /\ s \in SourceIds
    /\ KnownKind(s)
    /\ NpLen(position_pre[s]) = 1
    /\ NpLen(orientation_pre[s]) = 1

\* C6: a flat list of N static sources evaluated with sumup=False gives N rows
\* in input order, row i being the result of evaluating source i alone
\* against the same observers
C6_OrderPreserved ==
    (/\ pc = "done" /\ ~sumup /\ ~squeeze
     /\ \A i \in 1..Len(sources) : StaticSource(sources[i])) =>
        /\ NpLen(result) = Len(sources)
        /\ \A i \in 1..Len(sources) :
            Index0(result, i - 1) =
                Index0(RefTensor(<<<<sources[i]>>>>, observers, MaxPathLength), 0)

\* C7: for a collection of k >= 1 sources passed as the only top-level entry,
\* the result with sumup=True is the elementwise sum of the results of
\* evaluating each member on its own against the same observers
C7_GroupingLinearity ==
    (/\ pc = "done" /\ sumup /\ ~squeeze
     /\ Len(sources) = 1
     /\ attr[sources[1]].object_type = "Collection"
     /\ Len(Members(sources[1])) >= 1
     /\ \A i \in 1..Len(Members(sources[1])) : KnownKind(Members(sources[1])[i])) =>
        result = Index0(RefTensor(<<Members(sources[1])>>, observers, MaxPathLength), 0)

\* C8: a source with path length 1 evaluated against an observer with path
\* length m gives, at every path index j, the field of the source's single
\* state at the observer's state j (observation points, position, orientation)
C8_TilingInvariance ==
    (/\ pc = "done" /\ ~sumup /\ ~squeeze
     /\ Len(sources) = 1 /\ StaticSource(sources[1])
     /\ Len(observers) = 1) =>
        LET s    == sources[1]
            sens == observers[1]
            mo   == NpLen(position_pre[sens])
            np   == Prod(attr[sens].pixel.shape) \div 3
        IN  /\ result.shape[2] = mo
            /\ \A j \in 1..mo : \A p \in 1..np :
                SubSeq(result.data, ((j - 1) * np + (p - 1)) * 3 + 1,
                                    ((j - 1) * np + p) * 3)
                    = RefField(s, sens, j, p)

\* one static source seen by a sensor that moves and turns over 3 or more steps
C8_Witness ==
    /\ pc = "done" /\ ~sumup /\ ~squeeze
    /\ Len(sources) = 1 /\ StaticSource(sources[1])
    /\ Len(observers) = 1
    /\ NpLen(position_pre[observers[1]]) >= 3
    /\ Row(orientation_pre[observers[1]], 1) # Row(orientation_pre[observers[1]], 2)
    /\ result.shape[2] = NpLen(position_pre[observers[1]])

RECURSIVE DropOnes(_)
\* a shape without its axes of length 1
DropOnes(shape) ==
    IF shape = <<>> THEN <<>>
    ELSE IF Head(shape) = 1 THEN DropOnes(Tail(shape))
    ELSE <<Head(shape)>> \o DropOnes(Tail(shape))

\* C9: the result with squeeze=True is the result of the same call with
\* squeeze=False (B_unsqueezed, fixed before the flag is read) with all axes
\* of length 1 removed; without such an axis the two results are identical
C9_SqueezeConsistency ==
    pc = "done" =>
        /\ ~squeeze => result = B_unsqueezed
        /\ squeeze =>
            /\ result.shape = DropOnes(B_unsqueezed.shape)
            /\ result.data = B_unsqueezed.data
            /\ (\A a \in 1..Len(B_unsqueezed.shape) : B_unsqueezed.shape[a] # 1)
                    => result = B_unsqueezed

\* a squeezed result that lost axes of length 1 on both sides of a longer one
C9_Witness ==
    /\ pc = "done" /\ squeeze
    /\ Len(B_unsqueezed.shape) >= 4
    /\ B_unsqueezed.shape[1] = 1
    /\ B_unsqueezed.shape[2] > 1
    /\ B_unsqueezed.shape[3] = 1
    /\ Len(result.shape) = Len(B_unsqueezed.shape) - 2

\* the sum of an array over its leading axis
SumLeadingAxis(T) ==
    LET w == Prod(Tail(T.shape))
        RECURSIVE colsum(_, _)
        colsum(e, i) == IF i = 0 THEN 0 ELSE T.data[(i - 1) * w + e] + colsum(e, i - 1)
    IN  Arr(Tail(T.shape), [e \in 1..w |-> colsum(e, T.shape[1])])

\* C10: the unsqueezed result with sumup=True is the sum over the leading
\* axis of the unsqueezed result with sumup=False (B_unsummed, the tensor
\* after back-rotation and reshape, fixed before the flag is read); with
\* sumup=False there is one sub-tensor per top-level source entry
C10_SumupLeadingAxis ==
    (pc = "done" /\ ~squeeze) =>
        /\ B_unsummed.shape[1] = Len(sources)
        /\ ~sumup => result = B_unsummed
        /\ sumup => result = SumLeadingAxis(B_unsummed)

\* a summed, unsqueezed result over two top-level entries on a path
C10_Witness ==
    /\ pc = "done" /\ ~squeeze /\ sumup
    /\ Len(sources) = 2
    /\ B_unsummed.shape[1] = 2
    /\ B_unsummed.shape[2] > 1
    /\ Index0(B_unsummed, 0) # Index0(B_unsummed, 1)
    /\ result.shape = Tail(B_unsummed.shape)

\* the orientation path of sensor number i (from 0) as the rotation stage finds it
SensorRot(i) == orientation[sensors[i + 1]]

\* is a rotation path the identity at every step / one rotation at every step
IdentityPath(rot) == \A j \in 1..NpLen(rot) : Row(rot, j) = unitQ
FixedPath(rot) == \A j \in 1..NpLen(rot) : Row(rot, j) = Row(rot, 1)

\* C11: for an observer whose orientation is the identity at every step,
\* skipping the back-rotation gives what the general per-step inverse rotation
\* gives; for an observer with one fixed non-identity orientation the single
\* batched inverse rotation with orientation[0] gives what the inverse
\* rotation of step j applied for every path index j gives
C11_RotationPathsAgree ==
    pc = "rotate" =>
        \A i \in 0..(Len(sensors) - 1) :
            LET general == RotateGeneral(B, i, 0)
            IN  /\ IdentityPath(SensorRot(i)) =>
                    /\ unrotated_sensors[i + 1]
                    /\ ~Raised(general) => general = B
                /\ (FixedPath(SensorRot(i)) /\ ~IdentityPath(SensorRot(i))) =>
                    /\ ~unrotated_sensors[i + 1]
                    /\ static_sensor_rot[i + 1]
                    /\ RotateStatic(B, i) = general

\* a sensor turned by one fixed rotation over a path of several steps, whose
\* part of B the back-rotation changes
C11_Witness ==
    /\ pc = "rotate"
    /\ \E i \in 0..(Len(sensors) - 1) :
        /\ FixedPath(SensorRot(i)) /\ ~IdentityPath(SensorRot(i))
        /\ NpLen(SensorRot(i)) > 1
        /\ ~Raised(RotateStatic(B, i))
        /\ RotateStatic(B, i) # B

\* the paths do not depend on the order in which the tiling loop and the
\* restore loop visit the objects of the unordered set
OrderIndependent ==
    /\ pc = "tile" =>
        \A o1, o2 \in Orderings(reset_obj) :
            /\ TileLoop(position, o1, m) = TileLoop(position, o2, m)
            /\ TileLoop(orientation, o1, m) = TileLoop(orientation, o2, m)
    /\ pc = "reset" =>
        \A o1, o2 \in Orderings(reset_obj) :
            /\ ResetLoop(position, o1) = ResetLoop(position, o2)
            /\ ResetLoop(orientation, o1) = ResetLoop(orientation, o2)

\* the field array after the evaluation does not depend on what the
\* allocation of B happened to contain
AllocationIndependent ==
    pc = "evaluate" =>
        \A f1, f2 \in EmptyFill :
            EvaluateFrom(NpEmpty(<<l, m, n_pix, 3>>, f1), 1)
                = EvaluateFrom(NpEmpty(<<l, m, n_pix, 3>>, f2), 1)

\* C12: two calls on identical inputs return identical results and leave
\* identical object states: at every point where the call could go two ways
\* (the iteration order of the set of objects, the content of the allocated
\* array) both ways lead to the same paths and the same field array
C12_Deterministic == OrderIndependent /\ AllocationIndependent

\* ---------------------------------------------------------------------------
\* Collection.sources

NoDuplicates(lst) ==
    \A i, j \in 1..Len(lst) : lst[i] = lst[j] => i = j

IsPrefix(a, b) ==
    Len(a) <= Len(b) /\ SubSeq(b, 1, Len(a)) = a

\* C13: Collection.sources is an ordered set. After every step (construction,
\* assignment of sources, add, +, and the others) no object occurs twice in
\* the sources of any Collection, and a step of add or + leaves the sources
\* that were present as they were, in their order, at the front of the list:
\* what is new comes after them.  (A Collection that is not the target of the
\* add keeps its list, so the statement is made for all of them.)
C13_OrderedSet ==
    [][ /\ \A c \in ColNames :
              col'[c] # 0 => NoDuplicates(lists'[col'[c]])
        /\ col_op'.op \in {"add", "__add__"} =>
              \A c \in ColNames :
                  Constructed(c) => IsPrefix(SourcesOf(c), lists'[col'[c]])
      ]_vars

\* an add has put a third object behind two that were there
C13_Witness ==
    /\ col_op.op = "add"
    /\ \E c \in ColNames :
          /\ Constructed(c)
          /\ Len(SourcesOf(c)) = 3
          /\ NoDuplicates(SourcesOf(c))

\* C14: when the call ends with an error raised after the tiling step, the
\* restore step has not run: every object that was tiled has its paths of
\* length m, the original path followed by copies of its last entry, and so
\* not its original length; the other participants have their original paths
C14_NoRestoreOnError ==
    (pc = "raised" /\ err \notin BadInputErrors) =>
        /\ \A o \in reset_obj :
              /\ reset_obj_m0[o] = NpLen(position_pre[o])
              /\ reset_obj_m0[o] < m
              /\ NpLen(position[o]) = m
              /\ NpLen(orientation[o]) = m
              /\ position[o] = TiledPath(position_pre[o], m - reset_obj_m0[o])
              /\ orientation[o] = TiledPath(orientation_pre[o], m - reset_obj_m0[o])
        /\ \A o \in Participants \ reset_obj :
              /\ position[o] = position_pre[o]
              /\ orientation[o] = orientation_pre[o]

\* a call that failed after it had tiled the path of an object
C14_Witness ==
    /\ pc = "raised"
    /\ err \notin BadInputErrors
    /\ \E o \in reset_obj : NpLen(position[o]) > NpLen(position_pre[o])

RECURSIVE FlatStart(_)
\* the flat-list index of the first member of top-level entry i (from 0)
FlatStart(i) ==
    IF i = 0 THEN 0 ELSE FlatStart(i - 1) + Len(Members(sources[i]))

\* C15: collection-sum reduction. Whatever the numbers of members of the
\* top-level entries are (0 included), the tensor after the reduction step has
\* one row per top-level entry, and row i is the elementwise sum of the rows
\* that the members of entry i had before the step (the row of the source
\* itself for a plain source), in top-level order
C15_ReductionSums ==
    pc = "collections" =>
        LET R == IF l > l0 THEN SumCollections(B, 0) ELSE B
        IN  ~Raised(R) =>
              /\ NpLen(R) = l0
              /\ \A i \in 0..(l0 - 1) :
                    Index0(R, i) =
                        NpSum0(Slice0(B, FlatStart(i),
                                      FlatStart(i) + Len(Members(sources[i + 1]))))

\* C16: the condition that triggers the collection-sum reduction, l > l0,
\* holds exactly when some top-level Collection has more than one member
C16_TriggerIffLargeGrouping ==
    pc = "collections" =>
        ((l > l0) <=>
            \E i \in 1..Len(sources) :
                /\ attr[sources[i]].object_type = "Collection"
                /\ Len(Members(sources[i])) > 1)

\* the places (group, place in the group) at which order holds flat index i
PlacesOf(i) ==
    {bp \in (1..7) \X (1..l) : bp[2] <= Len(order[bp[1]]) /\ order[bp[1]][bp[2]] = i}

\* the output of the kernel of group b, one entry per member: B_group
KernelOutput(b) ==
    Reshape(getBH_level1(get_src_dict(src_sorted[b], n_pix, n_pp, poso)),
            <<Len(src_sorted[b]), m, n_pix, 3>>)

\* C17: scatter-back bijection. When every source of the flat list has one of
\* the seven type tags, every flat index occurs exactly once in the order
\* lists, the indices of a group increase and name the sources of the group in
\* their order, and after the scatter loop B has l rows, row i being the
\* kernel output for the source with flat index i: every row has been written
\* and none holds what the allocated array held before
C17_ScatterBack ==
    (pc = "collections" /\ \A i \in 1..l : KnownKind(src_list[i])) =>
        /\ \A i \in 0..(l - 1) : Cardinality(PlacesOf(i)) = 1
        /\ B.shape = <<l, m, n_pix, 3>>
        /\ \A b \in 1..7 :
              /\ Len(src_sorted[b]) = Len(order[b])
              /\ \A p \in 1..Len(order[b]) :
                    /\ order[b][p] \in 0..(l - 1)
                    /\ src_sorted[b][p] = src_list[order[b][p] + 1]
                    /\ \A q \in 1..(p - 1) : order[b][q] < order[b][p]
              /\ src_sorted[b] # <<>> =>
                    \* B[order[b][p]] = B_group[p] for all members at once
                    FlatSeq([p \in 1..Len(order[b]) |-> Index0(B, order[b][p]).data])
                        = KernelOutput(b).data

\* a flat list in which the sources of one group are apart: another group's
\* source lies between them
C17_Witness ==
    /\ pc = "collections"
    /\ \A i \in 1..l : KnownKind(src_list[i])
    /\ \E b \in 1..7 :
          /\ Len(order[b]) >= 2
          /\ order[b][2] > order[b][1] + 1

\* the level1 input of group b
SrcDict(b) == get_src_dict(src_sorted[b], n_pix, n_pp, poso)

PackedFields == {"magnetization", "moment", "current", "diameter", "dimension"}

PixelPosition(sens, j, p) ==
    VecAdd(QuatApply(Row(orientation[sens], j + 1), Row(PixelRows(sens), p + 1)),
           Row(position[sens], j + 1))

\* C20: observation-array layout. With k sensors of k_pixel pixels each and
\* path length m the combined observation array has m*k*k_pixel rows, n_pix is
\* k*k_pixel, and row j*(k*k_pixel) + i*k_pixel + p (all from 0) is the global
\* position of pixel p of sensor i at step j; so the entries i*k_pixel up to
\* (i+1)*k_pixel - 1 of the pixel axis of a step are the pixels of sensor i,
\* and the rotation with the orientation of sensor i changes nothing outside
\* these entries
C20_PosoLayout ==
    pc \in {"group", "rotate"} =>
        /\ poso.shape = <<m * k * k_pixel, 3>>
        /\ n_pix = k * k_pixel
        /\ \A i \in 0..(k - 1) : NpLen(PixelRows(sensors[i + 1])) = k_pixel
        /\ \A j \in 0..(m - 1), i \in 0..(k - 1), p \in 0..(k_pixel - 1) :
              Row(poso, j * (k * k_pixel) + i * k_pixel + p + 1)
                  = PixelPosition(sensors[i + 1], j, p)
        /\ pc = "rotate" =>
              \A i \in 0..(k - 1) :
                  \A R \in {RotateStatic(B, i), RotateGeneral(B, i, 0)} :
                      ~Raised(R) =>
                          /\ R.shape = B.shape
                          /\ SliceAxis2(R, 0, i * k_pixel) = SliceAxis2(B, 0, i * k_pixel)
                          /\ SliceAxis2(R, (i + 1) * k_pixel, n_pix)
                                = SliceAxis2(B, (i + 1) * k_pixel, n_pix)

\* two sensors of more than one pixel each on a path of more than one step,
\* with observation points that differ from sensor to sensor and step to step
C20_Witness ==
    /\ pc = "group"
    /\ k >= 2
    /\ m >= 2
    /\ k_pixel >= 2
    /\ PixelPosition(sensors[1], 0, 0) # PixelPosition(sensors[2], 0, 0)
    /\ PixelPosition(sensors[1], 0, 0) # PixelPosition(sensors[1], 1, 0)
    /\ PixelPosition(sensors[1], 0, 0) # PixelPosition(sensors[1], 0, 1)

\* the stages of a call in the order of the code, and the place of a stage in it
StageOrder ==
    <<"start", "tile", "observers", "group", "evaluate", "collections", "rotate",
      "reshape", "sumup", "squeeze", "reset", "done">>

StageNo(p) == CHOOSE n \in 1..Len(StageOrder) : StageOrder[n] = p

\* C21: stage ordering. Every step of a call either ends it with an error or
\* leads to the next stage of the order: tiling, then the observation array,
\* then grouping and the kernels with their scatter, then the collection-sum
\* reduction, then the back-rotation, the reshape, sumup, squeeze, and the
\* restore step last. What a stage produces is written in that stage only:
\* the paths change in the tiling and in the restore step, the observation
\* array is built in its stage after the tiling, kernels are invoked in the
\* evaluation stage after it, B is assigned from the evaluation to the squeeze,
\* and the result is handed over by the restore step, which ends the call.
C21_StageOrder ==
    [][ /\ pc' # pc =>
              /\ pc # "raised" /\ pc # "done"
              /\ pc' = "raised" \/ StageNo(pc') = StageNo(pc) + 1
        /\ (position' # position \/ orientation' # orientation) =>
              pc \in {"tile", "reset"}
        /\ poso' # poso => pc = "observers"
        /\ (src_sorted' # src_sorted \/ order' # order) => pc = "group"
        /\ kernel_calls' # kernel_calls => pc = "evaluate" /\ poso # NoArr
        /\ B' # B =>
              pc \in {"evaluate", "collections", "rotate", "reshape", "sumup", "squeeze"}
        /\ B_unsummed' # B_unsummed => pc = "sumup"
        /\ B_unsqueezed' # B_unsqueezed => pc = "squeeze"
        /\ (result' # result \/ pc' = "done") =>
              pc = "reset" /\ pc' = "done" /\ result' = B /\ B' = B
      ]_vars

\* a returned call in which every stage had something to do: a path was
\* tiled, a Collection was summed, a sensor was rotated back, and the result
\* was summed and squeezed
C21_Witness ==
    /\ pc = "done"
    /\ result # NoResult
    /\ reset_obj # {}
    /\ l > l0
    /\ \E i \in 1..Len(sensors) : ~unrotated_sensors[i]
    /\ sumup /\ squeeze
    /\ B_unsummed # B_unsqueezed
    /\ B_unsqueezed # result

\* C22: evaluation writes nothing but paths, and only in two steps. No step
\* of a call changes an attribute of an object other than its paths (type
\* tag, excitation, geometry, pixel array, Collection membership); a step that
\* changes the position or orientation path of an object is the tiling step
\* or the restore step, and the object is a participant whose original path
\* is shorter than m; between these two steps no path changes
C22_OnlyPathsWritten ==
    [][ /\ attr' = attr
        /\ \A o \in DOMAIN position :
              (position'[o] # position[o] \/ orientation'[o] # orientation[o]) =>
                  /\ pc \in {"tile", "reset"}
                  /\ o \in reset_obj
                  /\ o \in Participants
                  /\ NpLen(position_pre[o]) < m
        /\ pc \in (TiledStages \ {"reset"}) =>
              position' = position /\ orientation' = orientation
      ]_vars

\* a returned call of a Collection and a sensor with a pixel array in which
\* one object was tiled and restored and another had the full length m
C22_Witness ==
    /\ pc = "done"
    /\ \E i \in 1..Len(sources) : attr[sources[i]].object_type = "Collection"
    /\ \E o \in reset_obj :
          NpLen(position_pre[o]) < m /\ position[o] = position_pre[o]
    /\ \E o \in Participants \ reset_obj : NpLen(position[o]) = m
    /\ m > 1

\* the flat positions (from 1) at which source s stands in src_list
Occurrences(s) == {i \in 1..l : src_list[i] = s}

\* the sources that occur more than once in the flat list
Repeated == {s \in SeqToSet(src_list) : Cardinality(Occurrences(s)) >= 2}

\* the flat positions (from 1) of the members of top-level entry e (from 1)
SliceOf(e) ==
    (FlatStart(e - 1) + 1)..(FlatStart(e - 1) + Len(Members(sources[e])))

\* C23: a source that occurs more than once in the flat list. The flat list
\* keeps every occurrence, one in the slice of each top-level entry the source
\* belongs to; the grouping keeps every occurrence in the list of its kind and
\* B has a row for each of them; its paths are tiled once, by m - p0 states to
\* length m, and after the call they are the original paths of length p0
C23_RepeatedSource ==
    /\ pc \in ({"tile"} \cup TiledStages) =>
          /\ l = FlatStart(l0)
          /\ \A e \in 1..l0 :
                [i \in 1..Len(Members(sources[e])) |-> src_list[FlatStart(e - 1) + i]]
                    = Members(sources[e])
    /\ \A s \in Repeated :
          LET p0 == NpLen(position_pre[s])
          IN  /\ pc \in TiledStages =>
                    /\ NpLen(position[s]) = m
                    /\ NpLen(orientation[s]) = m
                    /\ position[s] = TiledPath(position_pre[s], m - p0)
                    /\ orientation[s] = TiledPath(orientation_pre[s], m - p0)
                    /\ p0 < m => s \in reset_obj /\ reset_obj_m0[s] = p0
              /\ (pc = "collections" /\ KnownKind(s)) =>
                    /\ NpLen(B) = l
                    /\ \A i \in Occurrences(s) : Cardinality(PlacesOf(i - 1)) = 1
                    /\ \A b \in 1..7 :
                          attr[s].object_type = SourceTypes[b] =>
                              Cardinality({p \in 1..Len(src_sorted[b]) :
                                                src_sorted[b][p] = s})
                                  = Cardinality(Occurrences(s))
              /\ pc = "done" =>
                    /\ position[s] = position_pre[s]
                    /\ orientation[s] = orientation_pre[s]
                    /\ NpLen(position[s]) = p0

\* a returned call in which a source with a path shorter than m was a member
\* of two top-level entries, one of them a Collection
C23_Witness ==
    /\ pc = "done"
    /\ result # NoResult
    /\ \E s \in Repeated :
          /\ NpLen(position_pre[s]) < m
          /\ \E e1, e2 \in 1..l0 :
                /\ e1 # e2
                /\ attr[sources[e1]].object_type = "Collection"
                /\ Occurrences(s) \cap SliceOf(e1) # {}
                /\ Occurrences(s) \cap SliceOf(e2) # {}

\* C24: the flags of the sensors, computed before the tiling, hold for the
\* tiled paths. In every stage between tiling and restore: a sensor flagged
\* as unrotated has the unit rotation at each of the m steps of its path; a
\* sensor flagged as static has the orientation of its first step at each of
\* the m steps; and the flags are the ones the tiled paths would give. So in
\* the rotation stage the branch taken from the flags does what the general
\* branch does: skipping an unrotated sensor leaves B as the general branch
\* would, and the static branch gives the result of the general branch
C24_FlagsStayValid ==
    pc \in TiledStages =>
        /\ unrotated_sensors = UnrotatedSensors(sensors)
        /\ \A i \in 1..Len(sensors) :
              LET rot == orientation[sensors[i]]
                  rot0 == orientation_pre[sensors[i]]
              IN  /\ NpLen(rot) = m
                  /\ unrotated_sensors[i] <=> IdentityPath(rot0)
                  /\ unrotated_sensors[i] => IdentityPath(rot)
                  /\ static_sensor_rot[i] =>
                        /\ FixedPath(rot)
                        /\ Row(rot, 1) = Row(rot0, 1)
                  /\ FixedPath(rot0) => static_sensor_rot[i]
                  /\ pc = "rotate" =>
                        LET general == RotateGeneral(B, i - 1, 0)
                        IN  ~Raised(general) =>
                              /\ unrotated_sensors[i] => general = B
                              /\ (static_sensor_rot[i] /\ ~unrotated_sensors[i]) =>
                                    RotateStatic(B, i - 1) = general

\* the rotation stage of a call in which the path of a sensor flagged as
\* static, with a rotation that is not the unit rotation, was tiled, and the
\* rotation changes B
C24_Witness ==
    /\ pc = "rotate"
    /\ m > 1
    /\ \E j \in 1..Len(sensors) :
          /\ sensors[j] \in reset_obj
          /\ static_sensor_rot[j] /\ ~unrotated_sensors[j]
          /\ ~Raised(RotateGeneral(B, j - 1, 0))
          /\ RotateGeneral(B, j - 1, 0) # B

\* the Collections whose sources differ before and after the step
ChangedCollections ==
    {c \in ColNames : Constructed(c) /\ lists'[col'[c]] # SourcesOf(c)}

\* C25: Collection.copy returns an independent Collection. A call of add, +,
\* remove or - is made on one Collection; were a copy independent of its
\* original, such a call would change the sources of that Collection at most
\* and leave the sources of every other Collection, its copy or its original
\* included, as they are
C25_CopyIndependent ==
    [][ col_op'.op \in {"add", "__add__", "remove", "__sub__"} =>
            Cardinality(ChangedCollections) <= 1
      ]_vars

\* C26: after any sequence of construction, assignment of sources, add, +,
\* remove and -, every element of the sources of a Collection is one that
\* the filter of the sources setter keeps: no sensor and no other object that
\* is not a source is a member
C26_OnlySourceTypes ==
    \A c \in ColNames :
        Constructed(c) => only_allowed_src_types(SourcesOf(c)) = SourcesOf(c)

=============================================================================
